---- MODULE Spec2Model ----
(***************************************************************************)
(* A model of libfreelan's core (src/src/core2.cpp): the results_gatherer  *)
(* fan-in helper, the core's life cycle and periodic contact timers, the   *)
(* outbound contact chain (resolve -> greet -> introduce) and the handlers *)
(* the core registers with the FSCP server.                                *)
(***************************************************************************)
EXTENDS Integers, Sequences, FiniteSets, Bags, TLC

(***************************************************************************)
(* Bounds of the model.                                                    *)
(***************************************************************************)
MaxKeys == 2          \* keys a results_gatherer may expect: 1..MaxKeys
MaxGatherCalls == 3   \* gather calls explored on one results_gatherer

MaxIp == 2            \* IP addresses of the model: 1..MaxIp
MaxInFlight == 2      \* asynchronous resolutions and greets pending at once
MaxTime == 90         \* the clock stops advancing here (seconds)
MaxEstablished == 2   \* new sessions established with one peer between two losses

\* Program constants.
CONTACT_PERIOD == 30
DYNAMIC_CONTACT_PERIOD == 45
DEFAULT_SERVICE == 12000

Keys == 1..(MaxKeys + 1)   \* one key more than can be expected: a never-expected key
ExpectedKeys == 1..MaxKeys
Values == {"success", "error"}

VARIABLES
    \* ---- results_gatherer (core2.cpp:96-132)
    NDEBUG,            \* build flag: TRUE when assert() is compiled out
    g_keys,            \* the key set given to the constructor
    m_keys,            \* results_gatherer::m_keys, the pending set
    m_results,         \* results_gatherer::m_results, a map key -> value
    m_handler,         \* the maps m_handler was invoked with, in order
    g_calls,           \* the gather calls made so far, in order: <<key, value>>
    g_aborted,         \* TRUE once assert(erased_count == 1) aborted the process
    \* ---- core (core2.cpp:145-745)
    m_configuration,   \* core::m_configuration, fixed at construction
    phase,             \* "constructed", "open_failed", "opened", "closed"
    process,           \* "running" or "crashed"
    m_server,          \* core::m_server: "null", "open" or "closed"
    m_ca_store,        \* core::m_ca_store: [created, flags]
    now,               \* the io_service clock, in seconds
    m_contact_timer,   \* [expiry, waits]: deadline and outstanding async_waits
    m_dynamic_contact_timer,
    io_queue,          \* timer callbacks ready to run on the io_service, in order
    inflight,          \* bag of the pending asynchronous resolutions and greets
    last,              \* the handler that ran last, with its inputs and verdict
    out,               \* the calls that handler made, in order
    \* ---- forwarding ports (core2.cpp:584-605, 618-639)
    m_endpoint_port_map,  \* the peers that have a forwarding port handle
    m_ports,           \* per peer, the ports registered in m_switch / m_router
    g_established,     \* per peer, the new sessions established since the last loss
    \* ---- concurrent callers of results_gatherer::gather (core2.cpp:109-131)
    m_mutex,           \* results_gatherer::m_mutex: "unlocked" or "locked"
    threads            \* per calling thread: its position in gather and its locals

gvars == <<NDEBUG, g_keys, m_keys, m_results, m_handler, g_calls, g_aborted>>
cvars == <<m_configuration, phase, process, m_server, m_ca_store, now,
           m_contact_timer, m_dynamic_contact_timer, io_queue, inflight,
           last, out>>
pvars == <<m_endpoint_port_map, m_ports, g_established>>
tvars == <<m_mutex, threads>>
vars == <<NDEBUG, g_keys, m_keys, m_results, m_handler, g_calls, g_aborted,
          m_configuration, phase, process, m_server, m_ca_store, now,
          m_contact_timer, m_dynamic_contact_timer, io_queue, inflight,
          last, out, m_endpoint_port_map, m_ports, g_established,
          m_mutex, threads>>

(***************************************************************************)
(* Data of the core.                                                       *)
(***************************************************************************)
TimeStep == CONTACT_PERIOD \div 2   \* the clock advances in steps of 15 s

Ips == 1..MaxIp

\* boost::asio::ip::address::is_v4(): the odd addresses stand for IPv4 ones
is_v4(address) == address % 2 = 1

\* core::ep_type, an address and a port; ep_type() is the zero endpoint
ZeroEp == [address |-> 0, port |-> 0]
Ep(address) == [address |-> address, port |-> DEFAULT_SERVICE]
Eps == {Ep(a) : a \in Ips}
EpAll == Eps \cup {ZeroEp}

\* freelan::endpoint, the variant of hostname, IPv4 and IPv6 endpoints
NoTarget == [type |-> "none", name |-> "", address |-> 0, port |-> 0]
Hostname(name) ==
    [type |-> "hostname_endpoint", name |-> name, address |-> 0,
     port |-> DEFAULT_SERVICE]

\* endpoint to_endpoint(const core::ep_type& host)
to_endpoint(host) ==
    IF is_v4(host.address)
    THEN [type |-> "ipv4_endpoint", name |-> "", address |-> host.address,
          port |-> host.port]
    ELSE [type |-> "ipv6_endpoint", name |-> "", address |-> host.address,
          port |-> host.port]

\* a certificate, by what store_context::verify() and the configured
\* certificate_validation_callback answer for it
Certs == [verify : BOOLEAN, callback : BOOLEAN]
NoCert == [verify |-> FALSE, callback |-> FALSE]

\* ip_network_address: the range of addresses first..last
Networks == {n \in [first : Ips, last : Ips] : n.first <= n.last}
NeverContactLists == {{}} \cup {{n} : n \in Networks}

ContactLists == { <<>>, <<Hostname("node-a")>> }

\* freelan::configuration, the fields the core reads
Configuration(identity, contacts, banned, accept, cvm, callback) ==
    [ identity |-> identity,
      contact_list |-> contacts,
      never_contact_list |-> banned,
      accept_contacts |-> accept,
      accept_contact_requests |-> TRUE,
      certificate_validation_method |-> cvm,
      certificate_validation_callback |-> callback,
      certificate_revocation_validation_method |-> "CRVM_LAST",
      tap_adapter_type |-> "TAT_TAP" ]

DefaultConfiguration ==
    Configuration(TRUE, <<>>, {}, TRUE, "CVM_DEFAULT", FALSE)

\* a call made by a handler: its name and arguments
Call(name, target, ep, ec, duration) ==
    [call |-> name, target |-> target, ep |-> ep, ec |-> ec,
     duration |-> duration, cert |-> NoCert, ret |-> FALSE]
Simple(name) == Call(name, NoTarget, ZeroEp, "success", 0)

\* the handler that ran, its inputs and its verdict
Event(op) ==
    [ op |-> op, host |-> NoTarget, sender |-> ZeroEp, answer |-> ZeroEp,
      default_accept |-> FALSE, sig_cert |-> NoCert, enc_cert |-> NoCert,
      ec |-> "success", duration |-> 0, ret |-> FALSE,
      is_new |-> FALSE, channel |-> 0, malformed |-> FALSE ]

\* core::core(io_service, configuration, logger)
core(configuration) ==
    /\ m_configuration = configuration
    /\ phase = "constructed"
    /\ process = "running"
    /\ m_server = "null"
    /\ m_ca_store = [created |-> FALSE, flags |-> {}]
    /\ now = 0
    /\ m_contact_timer = [expiry |-> CONTACT_PERIOD, waits |-> 0]
    /\ m_dynamic_contact_timer = [expiry |-> DYNAMIC_CONTACT_PERIOD, waits |-> 0]
    /\ io_queue = <<>>
    /\ inflight = EmptyBag
    /\ last = Event("core")
    /\ out = <<>>
    /\ m_endpoint_port_map = {}
    /\ m_ports = [peer \in Eps |-> 0]
    /\ g_established = [peer \in Eps |-> 0]

(***************************************************************************)
(* results_gatherer                                                        *)
(***************************************************************************)
EmptyMap == [k \in {} |-> "success"]

\* std::map operator[] followed by assignment
MapPut(map, key, value) ==
    [k \in (DOMAIN map) \cup {key} |-> IF k = key THEN value ELSE map[k]]

\* the threads that call gather, one per expected key; none has called yet
Threads == ExpectedKeys
NotCalled ==
    [pc |-> "idle", value |-> "success", emptied |-> FALSE, fired |-> FALSE]

\* results_gatherer(Handler handler, const set_type& keys)
results_gatherer(keys) ==
    /\ g_keys = keys
    /\ m_keys = keys
    /\ m_results = EmptyMap
    /\ m_handler = <<>>
    /\ m_mutex = "unlocked"
    /\ threads = [t \in Threads |-> NotCalled]

GatherInit ==
    /\ NDEBUG \in BOOLEAN
    /\ \E keys \in SUBSET ExpectedKeys : results_gatherer(keys)
    /\ g_calls = <<>>
    /\ g_aborted = FALSE
    /\ core(DefaultConfiguration)

\* std::set::erase(key): the number of elements erased
erased_count(key) == IF key \in m_keys THEN 1 ELSE 0

\* assert(erased_count == 1): aborts unless compiled out by NDEBUG
AssertFails(key) == ~NDEBUG /\ erased_count(key) # 1

\* void gather(const KeyType& key, const ValueType& value), run under m_mutex
gather(key, value) ==
    /\ ~g_aborted
    /\ Len(g_calls) < MaxGatherCalls
    /\ g_calls' = Append(g_calls, <<key, value>>)
    /\ m_keys' = m_keys \ {key}
    /\ IF AssertFails(key)
       THEN /\ g_aborted' = TRUE
            /\ UNCHANGED <<m_results, m_handler>>
       ELSE /\ g_aborted' = FALSE
            /\ m_results' = MapPut(m_results, key, value)
            /\ m_handler' = IF m_keys' = {}
                            THEN Append(m_handler, m_results')
                            ELSE m_handler
    /\ UNCHANGED <<NDEBUG, g_keys>>
    /\ UNCHANGED cvars
    /\ UNCHANGED pvars
    /\ UNCHANGED tvars

Gather == \E key \in Keys, value \in Values : gather(key, value)

GatherNext == Gather

SpecGather == GatherInit /\ [][GatherNext]_vars

(***************************************************************************)
(* gather called from several threads: thread t reports key t, and the     *)
(* statements of gather are the steps of the thread.                       *)
(***************************************************************************)
\* A lock that every thread acquires at once.
MutCanLock == TRUE

\* boost::mutex::scoped_lock lock(m_mutex) blocks while m_mutex is locked
CanLock == m_mutex = "unlocked"

\* a thread calls gather(t, value)
GatherCall ==
    \E t \in g_keys, value \in Values :
        /\ ~g_aborted
        /\ threads[t].pc = "idle"
        /\ threads' = [threads EXCEPT ![t].pc = "lock", ![t].value = value]
        /\ g_calls' = Append(g_calls, <<t, value>>)
        /\ UNCHANGED <<NDEBUG, g_keys, m_keys, m_results, m_handler, g_aborted,
                       m_mutex>>
        /\ UNCHANGED cvars
        /\ UNCHANGED pvars

\* boost::mutex::scoped_lock lock(m_mutex);
GatherLock ==
    \E t \in g_keys :
        /\ ~g_aborted
        /\ threads[t].pc = "lock"
        /\ CanLock
        /\ m_mutex' = "locked"
        /\ threads' = [threads EXCEPT ![t].pc = "erase"]
        /\ UNCHANGED gvars
        /\ UNCHANGED cvars
        /\ UNCHANGED pvars

\* const size_t erased_count = m_keys.erase(key); assert(erased_count == 1);
GatherErase ==
    \E t \in g_keys :
        /\ ~g_aborted
        /\ threads[t].pc = "erase"
        /\ m_keys' = m_keys \ {t}
        /\ g_aborted' = AssertFails(t)
        /\ threads' = [threads EXCEPT
                          ![t].pc = IF AssertFails(t) THEN "aborted" ELSE "store",
                          ![t].emptied = (erased_count(t) = 1 /\ m_keys' = {})]
        /\ UNCHANGED <<NDEBUG, g_keys, m_results, m_handler, g_calls, m_mutex>>
        /\ UNCHANGED cvars
        /\ UNCHANGED pvars

\* m_results[key] = value;
GatherStore ==
    \E t \in g_keys :
        /\ ~g_aborted
        /\ threads[t].pc = "store"
        /\ m_results' = MapPut(m_results, t, threads[t].value)
        /\ threads' = [threads EXCEPT ![t].pc = "test"]
        /\ UNCHANGED <<NDEBUG, g_keys, m_keys, m_handler, g_calls, g_aborted,
                       m_mutex>>
        /\ UNCHANGED cvars
        /\ UNCHANGED pvars

\* if (m_keys.empty()) { m_handler(m_results); }
GatherTest ==
    \E t \in g_keys :
        /\ ~g_aborted
        /\ threads[t].pc = "test"
        /\ m_handler' = IF m_keys = {} THEN Append(m_handler, m_results)
                        ELSE m_handler
        /\ threads' = [threads EXCEPT ![t].pc = "unlock",
                                      ![t].fired = (m_keys = {})]
        /\ UNCHANGED <<NDEBUG, g_keys, m_keys, m_results, g_calls, g_aborted,
                       m_mutex>>
        /\ UNCHANGED cvars
        /\ UNCHANGED pvars

\* the scoped_lock is destroyed when gather returns
GatherUnlock ==
    \E t \in g_keys :
        /\ ~g_aborted
        /\ threads[t].pc = "unlock"
        /\ m_mutex' = "unlocked"
        /\ threads' = [threads EXCEPT ![t].pc = "done"]
        /\ UNCHANGED gvars
        /\ UNCHANGED cvars
        /\ UNCHANGED pvars

ThreadsInit ==
    /\ NDEBUG \in BOOLEAN
    /\ \E keys \in SUBSET ExpectedKeys : results_gatherer(keys)
    /\ g_calls = <<>>
    /\ g_aborted = FALSE
    /\ core(DefaultConfiguration)

ThreadsNext ==
    \/ GatherCall
    \/ GatherLock
    \/ GatherErase
    \/ GatherStore
    \/ GatherTest
    \/ GatherUnlock

SpecThreads == ThreadsInit /\ [][ThreadsNext]_vars

(***************************************************************************)
(* Claims about results_gatherer.                                          *)
(***************************************************************************)
ReportedKeys == {g_calls[i][1] : i \in DOMAIN g_calls}

\* every gather call so far carried an expected key, and no key came twice
EachKeyAtMostOnce ==
    /\ ReportedKeys \subseteq g_keys
    /\ \A i, j \in DOMAIN g_calls : g_calls[i][1] = g_calls[j][1] => i = j

\* every key of K has been reported exactly once and nothing else was reported
EachKeyExactlyOnce == EachKeyAtMostOnce /\ ReportedKeys = g_keys

\* the value gather was given for key
ReportedValue(key) ==
    LET i == CHOOSE n \in DOMAIN g_calls : g_calls[n][1] = key IN g_calls[i][2]

\* C1: for every key set K (the empty set included), once each key of K has
\* been reported exactly once the handler has been invoked exactly once, with
\* a map holding exactly one entry per key of K, and it is never invoked
\* before every key of K was reported.
C1_HandlerOnceForEveryK ==
    /\ EachKeyExactlyOnce =>
          /\ Len(m_handler) = 1
          /\ DOMAIN m_handler[1] = g_keys
          /\ \A k \in g_keys : m_handler[1][k] = ReportedValue(k)
    /\ (EachKeyAtMostOnce /\ m_handler # <<>>) => ReportedKeys = g_keys

\* The same statement for the non-empty key sets only: the empty key set is
\* the only case the handler is not invoked in.
HandlerOnceForNonEmptyK == g_keys # {} => C1_HandlerOnceForEveryK

\* C2: a gather call whose key is not pending is detected (the process
\* aborts); it records nothing in the result map and does not invoke the
\* handler.
C2_ViolationDetected ==
    [][ (g_calls' # g_calls /\ g_calls'[Len(g_calls')][1] \notin m_keys) =>
          (g_aborted' /\ m_results' = m_results /\ m_handler' = m_handler) ]_vars

(***************************************************************************)
(* The core: life cycle, periodic timers and the outbound contact chain.   *)
(***************************************************************************)
RECURSIVE SeqToBag(_)
SeqToBag(seq) ==
    IF seq = <<>> THEN EmptyBag
    ELSE SetToBag({Head(seq)}) (+) SeqToBag(Tail(seq))

SelectCalls(calls, names) == SelectSeq(calls, LAMBDA c : c.call \in names)

\* the asynchronous operations a sequence of calls leaves pending
Pending(calls) == SeqToBag(SelectCalls(calls, {"async_resolve", "async_greet"}))

\* bool core::is_banned(const boost::asio::ip::address& address) const
has_address(networks, address) ==
    \E n \in networks : n.first <= address /\ address <= n.last

is_banned(address) ==
    has_address(m_configuration.never_contact_list, address)

\* void core::async_introduce_to(const ep_type& target)
async_introduce_to(target) ==
    <<Call("async_introduce_to", NoTarget, target, "success", 0)>>

\* void core::async_request_session(const ep_type& target)
async_request_session(target) ==
    <<Call("async_request_session", NoTarget, target, "success", 0)>>

\* void core::do_contact(const ep_type& address, duration_handler_type handler)
do_contact(host, address) ==
    <<Call("async_greet", host, address, "success", 0)>>

\* The handler with the error test left out.
MutDoHandleContact(host, address, ec, duration) ==
    <<Call("do_handle_contact", host, address, ec, duration)>> \o
    async_introduce_to(address)

\* void core::do_handle_contact(host, address, ec, duration)
do_handle_contact(host, address, ec, duration) ==
    <<Call("do_handle_contact", host, address, ec, duration)>> \o
    (IF ec = "success" THEN async_introduce_to(address) ELSE <<>>)

\* void resolve_handler(ec, it, success_handler, error_handler), with the
\* handlers core::async_contact binds: `deref` is what *it yields
resolve_handler(host, ec, deref) ==
    IF ec # "success"
    THEN do_contact(host, deref)
    ELSE do_handle_contact(host, ZeroEp, ec, 0)

\* void core::async_contact(const endpoint& target): starts the resolution
async_contact(target) ==
    <<Call("async_contact", target, ZeroEp, "success", 0),
      Call("async_resolve", target, ZeroEp, "success", 0)>>

\* void core::async_contact_all()
RECURSIVE ContactEach(_)
ContactEach(contacts) ==
    IF contacts = <<>> THEN <<>>
    ELSE async_contact(Head(contacts)) \o ContactEach(Tail(contacts))

async_contact_all ==
    <<Simple("async_contact_all")>> \o ContactEach(m_configuration.contact_list)

\* void core::async_dynamic_contact_all()
async_dynamic_contact_all ==
    <<Simple("async_dynamic_contact_all"),
      Simple("async_send_contact_request_to_all")>>

\* The flags with the full-chain case installing the chain flag alone.
MutVerificationFlags(crvm) ==
    CASE crvm = "CRVM_LAST" -> {"X509_V_FLAG_CRL_CHECK"}
      [] crvm = "CRVM_ALL" -> {"X509_V_FLAG_CRL_CHECK_ALL"}
      [] crvm = "CRVM_NONE" -> {}

\* the flags open_server installs in m_ca_store for a revocation method
VerificationFlags(crvm) ==
    CASE crvm = "CRVM_LAST" -> {"X509_V_FLAG_CRL_CHECK"}
      [] crvm = "CRVM_ALL" -> {"X509_V_FLAG_CRL_CHECK", "X509_V_FLAG_CRL_CHECK_ALL"}
      [] crvm = "CRVM_NONE" -> {}

\* boost::asio::deadline_timer::async_wait
\* An async_wait that leaves two waits pending.
MutTimerAsyncWait(timer) == [timer EXCEPT !.waits = @ + 2]

TimerAsyncWait(timer) == [timer EXCEPT !.waits = @ + 1]

\* the callbacks a cancel() of `timer` makes ready, named `name`
Aborted(name, timer) ==
    [i \in 1..timer.waits |-> [timer |-> name, ec |-> "operation_aborted"]]

\* void core::open_server(const ep_type& listen_endpoint)
open_server ==
    LET calls == <<Simple("server.open")>> \o async_contact_all \o
                 <<Simple("m_contact_timer.async_wait"),
                   Simple("m_dynamic_contact_timer.async_wait")>>
    IN  /\ BagCardinality(inflight (+) Pending(calls)) <= MaxInFlight
        /\ m_server' = "open"
        /\ m_ca_store' =
             IF m_configuration.certificate_validation_method = "CVM_DEFAULT"
             THEN [created |-> TRUE,
                   flags |-> VerificationFlags(
                       m_configuration.certificate_revocation_validation_method)]
             ELSE m_ca_store
        /\ inflight' = inflight (+) Pending(calls)
        /\ m_contact_timer' = TimerAsyncWait(m_contact_timer)
        /\ m_dynamic_contact_timer' = TimerAsyncWait(m_dynamic_contact_timer)
        /\ out' = calls

\* The test of open() never finding the identity missing.
MutIdentityMissing == FALSE

\* if (!m_configuration.security.identity) in core::open()
IdentityMissing == ~m_configuration.identity

\* void core::open()
Open ==
    /\ process = "running"
    /\ phase = "constructed"
    /\ IF IdentityMissing
       THEN /\ phase' = "open_failed"
            /\ last' = [Event("open") EXCEPT !.ec = "runtime_error"]
            /\ out' = <<>>
            /\ UNCHANGED <<m_server, m_ca_store, inflight, m_contact_timer,
                           m_dynamic_contact_timer>>
       ELSE /\ open_server
            /\ phase' = "opened"
            /\ last' = Event("open")
    /\ UNCHANGED <<m_configuration, process, now, io_queue>>
    /\ UNCHANGED gvars
    /\ UNCHANGED tvars
    /\ UNCHANGED pvars

\* The statements with the service closed before the timers are cancelled.
MutCloseServer ==
    <<Simple("server.close"),
      Simple("m_dynamic_contact_timer.cancel"),
      Simple("m_contact_timer.cancel")>>

\* void core::close_server(): the calls it makes, in order
close_server ==
    <<Simple("m_dynamic_contact_timer.cancel"),
      Simple("m_contact_timer.cancel"),
      Simple("server.close")>>

\* void core::close(), void core::close_server()
Close ==
    /\ process = "running"
    /\ phase \in {"opened", "open_failed"}
    /\ phase' = "closed"
    /\ io_queue' = io_queue \o Aborted("dynamic_contact", m_dynamic_contact_timer)
                            \o Aborted("contact", m_contact_timer)
    /\ m_dynamic_contact_timer' = [m_dynamic_contact_timer EXCEPT !.waits = 0]
    /\ m_contact_timer' = [m_contact_timer EXCEPT !.waits = 0]
    /\ last' = Event("close")
    /\ IF m_server = "null"
       THEN \* m_server->close() through a null pointer: undefined behaviour
            /\ process' \in {"crashed", "running"}
            /\ m_server' = m_server
            /\ out' = <<Simple("m_dynamic_contact_timer.cancel"),
                        Simple("m_contact_timer.cancel"),
                        Simple("m_server.null_dereference")>>
       ELSE /\ process' = process
            /\ m_server' = "closed"
            /\ out' = close_server
    /\ UNCHANGED <<m_configuration, m_ca_store, now, inflight>>
    /\ UNCHANGED gvars
    /\ UNCHANGED tvars
    /\ UNCHANGED pvars

\* the io_service clock advances
Tick ==
    /\ process = "running"
    /\ now + TimeStep <= MaxTime
    /\ now' = now + TimeStep
    /\ UNCHANGED <<m_configuration, phase, process, m_server, m_ca_store,
                   m_contact_timer, m_dynamic_contact_timer, io_queue,
                   inflight, last, out>>
    /\ UNCHANGED gvars
    /\ UNCHANGED tvars
    /\ UNCHANGED pvars

\* the deadline of a timer passes: its waits complete without error and
\* their callbacks become ready
Expired(name, timer) ==
    [i \in 1..timer.waits |-> [timer |-> name, ec |-> "success"]]

ContactTimerExpires ==
    /\ process = "running"
    /\ m_contact_timer.waits > 0
    /\ now >= m_contact_timer.expiry
    /\ io_queue' = io_queue \o Expired("contact", m_contact_timer)
    /\ m_contact_timer' = [m_contact_timer EXCEPT !.waits = 0]
    /\ UNCHANGED <<m_configuration, phase, process, m_server, m_ca_store, now,
                   m_dynamic_contact_timer, inflight, last, out>>
    /\ UNCHANGED gvars
    /\ UNCHANGED tvars
    /\ UNCHANGED pvars

DynamicContactTimerExpires ==
    /\ process = "running"
    /\ m_dynamic_contact_timer.waits > 0
    /\ now >= m_dynamic_contact_timer.expiry
    /\ io_queue' = io_queue \o Expired("dynamic_contact", m_dynamic_contact_timer)
    /\ m_dynamic_contact_timer' = [m_dynamic_contact_timer EXCEPT !.waits = 0]
    /\ UNCHANGED <<m_configuration, phase, process, m_server, m_ca_store, now,
                   m_contact_timer, inflight, last, out>>
    /\ UNCHANGED gvars
    /\ UNCHANGED tvars
    /\ UNCHANGED pvars

\* The test with the cancellation taken for any other completion.
MutPeriodicGoesOn(ec) == TRUE

\* whether a periodic callback called with ec goes on: ec != operation_aborted
PeriodicGoesOn(ec) == ec # "operation_aborted"

\* void core::do_handle_periodic_contact(const boost::system::error_code& ec)
do_handle_periodic_contact(ec) ==
    IF PeriodicGoesOn(ec)
    THEN LET calls == async_contact_all \o
                      <<Simple("m_contact_timer.expires_from_now"),
                        Simple("m_contact_timer.async_wait")>>
         IN  /\ BagCardinality(inflight (+) Pending(calls)) <= MaxInFlight
             /\ inflight' = inflight (+) Pending(calls)
             /\ io_queue' = Tail(io_queue) \o Aborted("contact", m_contact_timer)
             /\ m_contact_timer' = [expiry |-> now + CONTACT_PERIOD, waits |-> 1]
             /\ out' = calls
    ELSE /\ out' = <<>>
         /\ io_queue' = Tail(io_queue)
         /\ UNCHANGED <<inflight, m_contact_timer>>

PeriodicContact ==
    /\ process = "running"
    /\ io_queue # <<>>
    /\ Head(io_queue).timer = "contact"
    /\ do_handle_periodic_contact(Head(io_queue).ec)
    /\ last' = [Event("do_handle_periodic_contact") EXCEPT !.ec = Head(io_queue).ec]
    /\ UNCHANGED <<m_configuration, phase, process, m_server, m_ca_store, now,
                   m_dynamic_contact_timer>>
    /\ UNCHANGED gvars
    /\ UNCHANGED tvars
    /\ UNCHANGED pvars

\* void core::do_handle_periodic_dynamic_contact(const boost::system::error_code& ec)
do_handle_periodic_dynamic_contact(ec) ==
    IF PeriodicGoesOn(ec)
    THEN /\ io_queue' = Tail(io_queue) \o
                        Aborted("dynamic_contact", m_dynamic_contact_timer)
         /\ m_dynamic_contact_timer' =
                [expiry |-> now + DYNAMIC_CONTACT_PERIOD, waits |-> 1]
         /\ out' = async_dynamic_contact_all \o
                   <<Simple("m_dynamic_contact_timer.expires_from_now"),
                     Simple("m_dynamic_contact_timer.async_wait")>>
    ELSE /\ out' = <<>>
         /\ io_queue' = Tail(io_queue)
         /\ UNCHANGED m_dynamic_contact_timer

PeriodicDynamicContact ==
    /\ process = "running"
    /\ io_queue # <<>>
    /\ Head(io_queue).timer = "dynamic_contact"
    /\ do_handle_periodic_dynamic_contact(Head(io_queue).ec)
    /\ last' = [Event("do_handle_periodic_dynamic_contact")
                    EXCEPT !.ec = Head(io_queue).ec]
    /\ UNCHANGED <<m_configuration, phase, process, m_server, m_ca_store, now,
                   m_contact_timer, inflight>>
    /\ UNCHANGED gvars
    /\ UNCHANGED tvars
    /\ UNCHANGED pvars

\* the first result of resolving target: a literal endpoint resolves to
\* itself, a host name to some address
ResolveResults(target) ==
    IF target.type = "hostname_endpoint" THEN Eps
    ELSE {[address |-> target.address, port |-> target.port]}

\* a resolution completes and the resolver calls resolve_handler(ec, it, ...)
\* either without error and `it` at the first result, or with an error and
\* the end iterator
ResolveSucceeds ==
    /\ process = "running"
    /\ \E op \in BagToSet(inflight) :
         /\ op.call = "async_resolve"
         /\ \E first \in ResolveResults(op.target) :
              LET calls == resolve_handler(op.target, "success", first)
              IN  /\ inflight' = (inflight (-) SetToBag({op})) (+) Pending(calls)
                  /\ out' = calls
                  /\ last' = [Event("resolve_handler") EXCEPT
                                 !.host = op.target, !.answer = first]
    /\ UNCHANGED <<m_configuration, phase, process, m_server, m_ca_store, now,
                   m_contact_timer, m_dynamic_contact_timer, io_queue>>
    /\ UNCHANGED gvars
    /\ UNCHANGED tvars
    /\ UNCHANGED pvars

\* dereferencing the end iterator is undefined: the process crashes or the
\* read yields some endpoint value
ResolveFails ==
    /\ process = "running"
    /\ \E op \in BagToSet(inflight) :
         /\ op.call = "async_resolve"
         /\ last' = [Event("resolve_handler") EXCEPT
                        !.host = op.target, !.ec = "host_not_found"]
         /\ \/ /\ process' = "crashed"
               /\ inflight' = inflight (-) SetToBag({op})
               /\ out' = <<>>
            \/ \E garbage \in EpAll :
                 LET calls == resolve_handler(op.target, "host_not_found", garbage)
                 IN  /\ process' = process
                     /\ inflight' = (inflight (-) SetToBag({op})) (+) Pending(calls)
                     /\ out' = calls
    /\ UNCHANGED <<m_configuration, phase, m_server, m_ca_store, now,
                   m_contact_timer, m_dynamic_contact_timer, io_queue>>
    /\ UNCHANGED gvars
    /\ UNCHANGED tvars
    /\ UNCHANGED pvars

GreetErrors == {"success", "hello_request_timed_out", "network_unreachable"}
GreetDuration == 12

\* a greet completes and the server calls the handler do_contact bound:
\* core::do_handle_contact(host, address, ec, duration)
GreetCompletes ==
    /\ process = "running"
    /\ \E op \in BagToSet(inflight), ec \in GreetErrors :
         /\ op.call = "async_greet"
         /\ LET calls == do_handle_contact(op.target, op.ep, ec, GreetDuration)
            IN  /\ inflight' = (inflight (-) SetToBag({op})) (+) Pending(calls)
                /\ out' = calls
                /\ last' = [Event("greet_handler") EXCEPT
                               !.host = op.target, !.sender = op.ep, !.ec = ec,
                               !.duration = GreetDuration]
    /\ UNCHANGED <<m_configuration, phase, process, m_server, m_ca_store, now,
                   m_contact_timer, m_dynamic_contact_timer, io_queue>>
    /\ UNCHANGED gvars
    /\ UNCHANGED tvars
    /\ UNCHANGED pvars

GathererIdle ==
    /\ NDEBUG = FALSE
    /\ results_gatherer({})
    /\ g_calls = <<>>
    /\ g_aborted = FALSE

CoreInit ==
    /\ GathererIdle
    /\ \E identity \in BOOLEAN, contact_list \in ContactLists,
          never_contact_list \in {{}, {[first |-> 1, last |-> 1]}} :
         core(Configuration(identity, contact_list, never_contact_list,
                            TRUE, "CVM_DEFAULT", FALSE))

CoreNext ==
    \/ Open
    \/ Close
    \/ Tick
    \/ ContactTimerExpires
    \/ DynamicContactTimerExpires
    \/ PeriodicContact
    \/ PeriodicDynamicContact
    \/ ResolveSucceeds
    \/ ResolveFails
    \/ GreetCompletes

Spec == CoreInit /\ [][CoreNext]_vars

(***************************************************************************)
(* The handlers the core registers with the FSCP server.                   *)
(***************************************************************************)

\* The verdict with the ban check left out.
MutHelloVerdict(sender, default_accept) == default_accept

\* bool core::do_handle_hello_received(const ep_type& sender, bool default_accept)
HelloVerdict(sender, default_accept) ==
    IF is_banned(sender.address) THEN FALSE ELSE default_accept

do_handle_hello_received(sender, default_accept) ==
    LET accept == HelloVerdict(sender, default_accept)
    IN  [ret |-> accept,
         calls |-> IF accept THEN async_introduce_to(sender) ELSE <<>>]

\* bool core::do_handle_contact_request_received(sender, cert, hash, answer)
do_handle_contact_request_received(sender, answer) ==
    [ret |-> m_configuration.accept_contact_requests, calls |-> <<>>]

\* The acceptance with the ban list checked against nothing.
MutContactAccepted(answer) == m_configuration.accept_contacts

\* void core::do_handle_contact_received(sender, hash, answer)
ContactAccepted(answer) ==
    m_configuration.accept_contacts /\ ~is_banned(answer.address)

do_handle_contact_received(sender, answer) ==
    [ret |-> FALSE,
     calls |-> IF ContactAccepted(answer)
               THEN async_contact(to_endpoint(answer))
               ELSE <<>>]

\* The validation with the external callback overriding a failed verify().
MutCertificateIsValid(cert) ==
    IF m_configuration.certificate_validation_callback
    THEN cert.callback
    ELSE \/ m_configuration.certificate_validation_method = "CVM_NONE"
         \/ cert.verify

\* bool core::certificate_is_valid(cert_type cert)
certificate_is_valid(cert) ==
    IF /\ m_configuration.certificate_validation_method = "CVM_DEFAULT"
       /\ ~cert.verify
    THEN FALSE
    ELSE IF m_configuration.certificate_validation_callback
         THEN cert.callback
         ELSE TRUE

\* the call of certificate_is_valid(cert) and what it returned
Validation(cert) ==
    [Simple("certificate_is_valid") EXCEPT
        !.cert = cert, !.ret = certificate_is_valid(cert)]

\* The handler with the cipherment certificate left unvalidated.
MutPresentationReceived(sender, sig_cert, enc_cert) ==
    IF is_banned(sender.address)
    THEN [ret |-> FALSE, calls |-> <<>>]
    ELSE IF ~certificate_is_valid(sig_cert)
    THEN [ret |-> FALSE, calls |-> <<Validation(sig_cert)>>]
    ELSE [ret |-> TRUE,
          calls |-> <<Validation(sig_cert)>> \o async_request_session(sender)]

\* bool core::do_handle_presentation_received(sender, sig_cert, enc_cert, is_new)
do_handle_presentation_received(sender, sig_cert, enc_cert) ==
    IF is_banned(sender.address)
    THEN [ret |-> FALSE, calls |-> <<>>]
    ELSE IF ~certificate_is_valid(sig_cert)
    THEN [ret |-> FALSE, calls |-> <<Validation(sig_cert)>>]
    ELSE IF ~certificate_is_valid(enc_cert)
    THEN [ret |-> FALSE, calls |-> <<Validation(sig_cert), Validation(enc_cert)>>]
    ELSE [ret |-> TRUE,
          calls |-> <<Validation(sig_cert), Validation(enc_cert)>> \o
                    async_request_session(sender)]

\* the server calls a registered callback; `done` is what the handler did
Deliver(event, done) ==
    /\ process = "running"
    /\ m_server = "open"
    /\ BagCardinality(inflight (+) Pending(done.calls)) <= MaxInFlight
    /\ inflight' = inflight (+) Pending(done.calls)
    /\ out' = done.calls
    /\ last' = [event EXCEPT !.ret = done.ret]
    /\ UNCHANGED <<m_configuration, phase, process, m_server, m_ca_store, now,
                   m_contact_timer, m_dynamic_contact_timer, io_queue>>
    /\ UNCHANGED gvars
    /\ UNCHANGED tvars
    /\ UNCHANGED pvars

HelloReceived ==
    \E sender \in Eps, default_accept \in BOOLEAN :
        Deliver([Event("do_handle_hello_received") EXCEPT
                    !.sender = sender, !.default_accept = default_accept],
                do_handle_hello_received(sender, default_accept))

ContactRequestReceived ==
    \E sender \in Eps, answer \in Eps :
        Deliver([Event("do_handle_contact_request_received") EXCEPT
                    !.sender = sender, !.answer = answer],
                do_handle_contact_request_received(sender, answer))

ContactReceived ==
    \E sender \in Eps, answer \in Eps :
        Deliver([Event("do_handle_contact_received") EXCEPT
                    !.sender = sender, !.answer = answer],
                do_handle_contact_received(sender, answer))

PresentationReceived ==
    \E sender \in Eps, sig_cert \in Certs, enc_cert \in Certs :
        Deliver([Event("do_handle_presentation_received") EXCEPT
                    !.sender = sender, !.sig_cert = sig_cert,
                    !.enc_cert = enc_cert],
                do_handle_presentation_received(sender, sig_cert, enc_cert))

InboundInit ==
    /\ GathererIdle
    /\ \E never_contact_list \in NeverContactLists, accept_contacts \in BOOLEAN,
          cvm \in {"CVM_DEFAULT", "CVM_NONE"}, callback \in BOOLEAN :
         core(Configuration(TRUE, <<>>, never_contact_list, accept_contacts,
                            cvm, callback))

InboundNext ==
    \/ Open
    \/ Close
    \/ HelloReceived
    \/ ContactRequestReceived
    \/ ContactReceived
    \/ PresentationReceived

SpecInbound == InboundInit /\ [][InboundNext]_vars

(***************************************************************************)
(* Claims about the handlers and the contact chain.                        *)
(***************************************************************************)
\* the number of calls of `name` in the last handler's calls
Count(name) == Len(SelectCalls(out, {name}))
\* ... and of those made for endpoint ep
CountTo(name, ep) ==
    Len(SelectSeq(out, LAMBDA c : c.call = name /\ c.ep = ep))

\* address lies in a range of the configured never_contact_list
InBannedRange(address) ==
    \E n \in m_configuration.never_contact_list :
        address \in n.first..n.last

\* C3: the verdict of an inbound hello equals (default_accept and the sender
\* is not banned), and an introduction is issued to the sender if and only
\* if the verdict is true.
C3_HelloVerdictAndIntroduction ==
    last.op = "do_handle_hello_received" =>
        /\ last.ret = (last.default_accept /\ ~InBannedRange(last.sender.address))
        /\ Count("async_introduce_to") = (IF last.ret THEN 1 ELSE 0)
        /\ CountTo("async_introduce_to", last.sender) = Count("async_introduce_to")

\* a hello from a banned sender that the transport suggested to accept was
\* rejected
C3_Witness ==
    /\ last.op = "do_handle_hello_received"
    /\ InBannedRange(last.sender.address)
    /\ last.default_accept
    /\ ~last.ret
    /\ out = <<>>

\* C4: an inbound contact announcing address A issues contact(A) if and only
\* if contact acceptance is enabled and A is not banned; otherwise it starts
\* no contact, greet or resolution.
C4_ContactIffAcceptedAndNotBanned ==
    last.op = "do_handle_contact_received" =>
        IF /\ m_configuration.accept_contacts
           /\ ~InBannedRange(last.answer.address)
        THEN /\ Count("async_contact") = 1
             /\ \E i \in DOMAIN out :
                  /\ out[i].call = "async_contact"
                  /\ out[i].target.address = last.answer.address
                  /\ out[i].target.port = last.answer.port
        ELSE /\ Count("async_contact") = 0
             /\ Count("async_resolve") = 0
             /\ Count("async_greet") = 0

\* with acceptance enabled, a banned announced address was not contacted
C4_Witness ==
    /\ last.op = "do_handle_contact_received"
    /\ m_configuration.accept_contacts
    /\ InBannedRange(last.answer.address)
    /\ ~InBannedRange(last.sender.address)
    /\ out = <<>>

\* a certificate passes validation: (mode none or verify() succeeds) and
\* (no external validator or the external validator accepts it)
PassesValidation(cert) ==
    /\ \/ m_configuration.certificate_validation_method = "CVM_NONE"
       \/ cert.verify
    /\ \/ ~m_configuration.certificate_validation_callback
       \/ cert.callback

\* C5: a presentation is accepted, and a session request issued to its
\* sender, if and only if the sender is not banned and both certificates
\* pass validation; otherwise it is rejected and no session request issued.
C5_PresentationAccepted ==
    last.op = "do_handle_presentation_received" =>
        /\ last.ret = ( /\ ~InBannedRange(last.sender.address)
                        /\ PassesValidation(last.sig_cert)
                        /\ PassesValidation(last.enc_cert) )
        /\ Count("async_request_session") = (IF last.ret THEN 1 ELSE 0)
        /\ CountTo("async_request_session", last.sender)
             = Count("async_request_session")

\* a presentation whose signature certificate passes and whose cipherment
\* certificate does not was rejected, with no session request
C5_Witness ==
    /\ last.op = "do_handle_presentation_received"
    /\ ~InBannedRange(last.sender.address)
    /\ PassesValidation(last.sig_cert)
    /\ ~PassesValidation(last.enc_cert)
    /\ ~last.ret
    /\ Count("async_request_session") = 0

\* C6: certificate_is_valid(cert) equals (mode none or verify() succeeds)
\* and (no external validator or the external validator accepts cert).
C6_ValidateFormula ==
    \A i \in DOMAIN out :
        out[i].call = "certificate_is_valid" =>
            out[i].ret = PassesValidation(out[i].cert)

\* in chain mode, a certificate that verify() refuses and the configured
\* external validator would accept was found invalid
C6_Witness ==
    \E i \in DOMAIN out :
        /\ out[i].call = "certificate_is_valid"
        /\ m_configuration.certificate_validation_method = "CVM_DEFAULT"
        /\ m_configuration.certificate_validation_callback
        /\ ~out[i].cert.verify
        /\ out[i].cert.callback
        /\ ~out[i].ret

\* a periodic callback runs because its timer was cancelled
CancelledCallbackRuns ==
    /\ PeriodicContact \/ PeriodicDynamicContact
    /\ Head(io_queue).ec = "operation_aborted"

\* C7: a periodic callback invoked because of a cancellation calls neither
\* contact_all nor dynamic_contact_all and does not re-arm its timer.
C7_CancelledCallbackDoesNothing ==
    [][ CancelledCallbackRuns =>
          /\ out' = <<>>
          /\ inflight' = inflight
          /\ m_contact_timer' = m_contact_timer
          /\ m_dynamic_contact_timer' = m_dynamic_contact_timer ]_vars

\* after close(), the cancelled callbacks of both loops have run
C7_Witness ==
    /\ phase = "closed"
    /\ last.op = "do_handle_periodic_contact"
    /\ last.ec = "operation_aborted"
    /\ io_queue = <<>>
    /\ m_contact_timer.waits = 0
    /\ m_dynamic_contact_timer.waits = 0

PeriodicOps ==
    {"do_handle_periodic_contact", "do_handle_periodic_dynamic_contact"}

\* C8: once close() has been called, no contact_all or dynamic_contact_all
\* is invoked any more and neither timer is re-armed, in every interleaving
\* of close() with the timer expirations.
C8_NothingAfterClose ==
    phase = "closed" =>
        /\ m_contact_timer.waits = 0
        /\ m_dynamic_contact_timer.waits = 0
        /\ last.op \in PeriodicOps =>
             /\ Count("async_contact_all") = 0
             /\ Count("async_dynamic_contact_all") = 0

\* C9: when the resolution of a contact succeeds, a greet is issued to the
\* first resolution result and the error handler is not called; when it
\* fails, no greet is issued and the completion handler is called with the
\* resolution error, a zero endpoint and a zero duration.
C9_ResolveThenGreet ==
    last.op = "resolve_handler" =>
        IF last.ec = "success"
        THEN /\ Count("async_greet") = 1
             /\ CountTo("async_greet", last.answer) = 1
             /\ Count("do_handle_contact") = 0
        ELSE /\ Count("async_greet") = 0
             /\ \E i \in DOMAIN out :
                  out[i] = Call("do_handle_contact", last.host, ZeroEp,
                                last.ec, 0)

\* C10: when a greet completes for endpoint E without error, exactly one
\* introduction is issued, to E; when it completes with a timeout or another
\* error, no introduction is issued and no greet, resolution or contact is
\* started.
C10_IntroduceAfterGreet ==
    last.op = "greet_handler" =>
        /\ Count("async_greet") = 0
        /\ Count("async_resolve") = 0
        /\ Count("async_contact") = 0
        /\ IF last.ec = "success"
           THEN /\ Count("async_introduce_to") = 1
                /\ CountTo("async_introduce_to", last.sender) = 1
           ELSE Count("async_introduce_to") = 0

\* a greet that timed out was followed by no introduction
C10_Witness ==
    /\ last.op = "greet_handler"
    /\ last.ec = "hello_request_timed_out"
    /\ Count("async_introduce_to") = 0
    /\ Count("do_handle_contact") = 1

(***************************************************************************)
(* Sessions, forwarding ports and data.                                    *)
(***************************************************************************)
TapAdapterTypes == {"TAT_TAP", "TAT_TUN"}
Channels == {0, 1, 2}

\* The peers a port is created for, had the registration been written.
MutNewPorts(host, is_new) == IF is_new THEN {host} ELSE {}

\* void core::do_handle_session_established(host, is_new, local, remote):
\* the peers it creates and registers a port for (both branches are empty)
NewPorts(host, is_new) ==
    IF is_new
    THEN IF m_configuration.tap_adapter_type = "TAT_TAP" THEN {} ELSE {}
    ELSE {}

SessionEstablished ==
    \E host \in Eps, is_new \in BOOLEAN :
        /\ process = "running"
        /\ m_server = "open"
        /\ is_new => g_established[host] < MaxEstablished
        /\ g_established' =
             IF is_new THEN [g_established EXCEPT ![host] = @ + 1]
             ELSE g_established
        /\ m_endpoint_port_map' = m_endpoint_port_map \cup NewPorts(host, is_new)
        /\ m_ports' = [peer \in Eps |->
                         IF peer \in NewPorts(host, is_new)
                         THEN m_ports[peer] + 1 ELSE m_ports[peer]]
        /\ last' = [Event("do_handle_session_established") EXCEPT
                       !.sender = host, !.is_new = is_new]
        /\ out' = <<>>
        /\ UNCHANGED <<m_configuration, phase, process, m_server, m_ca_store,
                       now, m_contact_timer, m_dynamic_contact_timer, io_queue,
                       inflight>>
        /\ UNCHANGED gvars
        /\ UNCHANGED tvars

\* void core::do_handle_session_failed(host, is_new, local, remote)
SessionFailed ==
    \E host \in Eps, is_new \in BOOLEAN :
        /\ process = "running"
        /\ m_server = "open"
        /\ last' = [Event("do_handle_session_failed") EXCEPT
                       !.sender = host, !.is_new = is_new]
        /\ out' = <<>>
        /\ UNCHANGED <<m_configuration, phase, process, m_server, m_ca_store,
                       now, m_contact_timer, m_dynamic_contact_timer, io_queue,
                       inflight>>
        /\ UNCHANGED gvars
        /\ UNCHANGED tvars
        /\ UNCHANGED pvars

\* void core::do_handle_session_lost(const ep_type& host): the peers whose
\* port it unregisters and removes (both branches are empty)
RemovedPorts(host) ==
    IF m_configuration.tap_adapter_type = "TAT_TAP" THEN {} ELSE {}

SessionLost ==
    \E host \in Eps :
        /\ process = "running"
        /\ m_server = "open"
        /\ g_established' = [g_established EXCEPT ![host] = 0]
        /\ m_endpoint_port_map' = m_endpoint_port_map \ RemovedPorts(host)
        /\ m_ports' = [peer \in Eps |->
                         IF peer \in RemovedPorts(host) THEN 0 ELSE m_ports[peer]]
        /\ last' = [Event("do_handle_session_lost") EXCEPT !.sender = host]
        /\ out' = <<>>
        /\ UNCHANGED <<m_configuration, phase, process, m_server, m_ca_store,
                       now, m_contact_timer, m_dynamic_contact_timer, io_queue,
                       inflight>>
        /\ UNCHANGED gvars
        /\ UNCHANGED tvars

\* The handler with the message parsed outside any try block.
MutDataOutcome(channel, malformed) ==
    IF channel = 1 /\ malformed THEN "threw" ELSE "returned"

\* void core::do_handle_data_received(sender, channel_number, data): how the
\* handler ends; nothing in its switch can throw
DataOutcome(channel, malformed) ==
    CASE channel = 0 -> "returned"
      [] channel = 1 -> "returned"
      [] OTHER -> "returned"

DataReceived ==
    \E sender \in Eps, channel \in Channels, malformed \in BOOLEAN :
        /\ process = "running"
        /\ m_server = "open"
        /\ process' = IF DataOutcome(channel, malformed) = "threw"
                      THEN "crashed" ELSE process
        /\ last' = [Event("do_handle_data_received") EXCEPT
                       !.sender = sender, !.channel = channel,
                       !.malformed = malformed]
        /\ out' = <<>>
        /\ UNCHANGED <<m_configuration, phase, m_server, m_ca_store, now,
                       m_contact_timer, m_dynamic_contact_timer, io_queue,
                       inflight>>
        /\ UNCHANGED gvars
        /\ UNCHANGED tvars
        /\ UNCHANGED pvars

SessionConfiguration(tap, crvm, cvm) ==
    [DefaultConfiguration EXCEPT
        !.tap_adapter_type = tap,
        !.certificate_revocation_validation_method = crvm,
        !.certificate_validation_method = cvm]

SessionInit ==
    /\ GathererIdle
    /\ \E tap \in TapAdapterTypes,
          crvm \in {"CRVM_NONE", "CRVM_LAST", "CRVM_ALL"},
          cvm \in {"CVM_DEFAULT", "CVM_NONE"} :
         core(SessionConfiguration(tap, crvm, cvm))

SessionNext ==
    \/ Open
    \/ Close
    \/ SessionEstablished
    \/ SessionFailed
    \/ SessionLost
    \/ DataReceived

SpecSession == SessionInit /\ [][SessionNext]_vars

(***************************************************************************)
(* Claims about sessions, forwarding ports, data and the trust store.      *)
(***************************************************************************)
\* C11: after session-established(P, is_new = true) exactly one forwarding
\* port handle exists for P and is registered; a renewal adds none; a
\* session-lost removes it; a second session-lost changes nothing.
C11_PortFollowsSession ==
    /\ (last.op = "do_handle_session_established" /\ last.is_new) =>
          /\ last.sender \in m_endpoint_port_map
          /\ m_ports[last.sender] = 1
    /\ last.op = "do_handle_session_lost" =>
          /\ last.sender \notin m_endpoint_port_map
          /\ m_ports[last.sender] = 0

\* C12: each peer has at most one forwarding port handle and at most one
\* port registered for it, whatever session events arrived.
C12_AtMostOnePortPerPeer ==
    \A peer \in Eps :
        /\ m_ports[peer] <= 1
        /\ Cardinality({p \in m_endpoint_port_map : p = peer}) <= 1

\* a new session was established twice with a peer, with no loss in between
C12_Witness ==
    /\ last.op = "do_handle_session_established"
    /\ last.is_new
    /\ g_established[last.sender] = 2
    /\ m_ports[last.sender] <= 1

RevocationFlags == {"X509_V_FLAG_CRL_CHECK", "X509_V_FLAG_CRL_CHECK_ALL"}

\* C16: the flags installed for full-chain revocation checking contain every
\* flag installed for leaf-only checking, and no revocation flag is
\* installed when revocation checking is disabled.
C16_FullChainIncludesLeaf ==
    m_ca_store.created =>
        /\ m_configuration.certificate_revocation_validation_method = "CRVM_LAST"
             => m_ca_store.flags = VerificationFlags("CRVM_LAST")
        /\ m_configuration.certificate_revocation_validation_method = "CRVM_ALL"
             => VerificationFlags("CRVM_LAST") \subseteq m_ca_store.flags
        /\ m_configuration.certificate_revocation_validation_method = "CRVM_NONE"
             => m_ca_store.flags \cap RevocationFlags = {}

\* the store was built for full-chain checking and holds both flags
C16_Witness ==
    /\ m_ca_store.created
    /\ m_configuration.certificate_revocation_validation_method = "CRVM_ALL"
    /\ m_ca_store.flags = RevocationFlags

\* the data event was one the handler has to drop
Dropped(event) ==
    \/ event.channel = 1 /\ event.malformed
    \/ event.channel \notin {0, 1}

\* C17: a malformed payload on channel 1 and data on a channel other than 0
\* and 1 are dropped: the handler returns, the process keeps running and the
\* forwarding ports and sessions are left as they were.
C17_BadDataDropped ==
    [][ (DataReceived /\ Dropped(last')) =>
          /\ process' = "running"
          /\ out' = <<>>
          /\ m_endpoint_port_map' = m_endpoint_port_map
          /\ m_ports' = m_ports
          /\ g_established' = g_established
          /\ m_server' = m_server ]_vars

\* a malformed control message from a peer with a session was dropped
C17_Witness ==
    /\ last.op = "do_handle_data_received"
    /\ last.channel = 1
    /\ last.malformed
    /\ g_established[last.sender] > 0
    /\ process = "running"
    /\ m_server = "open"

(***************************************************************************)
(* Claims about open(), close(), the ban list and the periodic loops.      *)
(***************************************************************************)
\* C13: open() with no local identity fails with a fatal error, and then the
\* service is neither created nor opened, no callback is registered (no
\* handler can be delivered to), no contact is issued and neither timer is
\* armed.
C13_OpenWithoutIdentityFails ==
    ~m_configuration.identity =>
        /\ phase # "opened"
        /\ m_server = "null"
        /\ ~m_ca_store.created
        /\ m_contact_timer.waits = 0
        /\ m_dynamic_contact_timer.waits = 0
        /\ inflight = EmptyBag
        /\ io_queue = <<>>
        /\ last.op = "open" =>
             /\ last.ec = "runtime_error"
             /\ phase = "open_failed"
             /\ out = <<>>

\* open() has just failed for want of an identity
C13_Witness ==
    /\ ~m_configuration.identity
    /\ last.op = "open"
    /\ last.ec = "runtime_error"
    /\ phase = "open_failed"
    /\ m_server = "null"

\* C14: close() after an open() that failed before the service object was
\* created completes without a crash and without dereferencing the absent
\* service, and leaves both timers cancelled.
C14_CloseSafeAfterFailedOpen ==
    (last.op = "close" /\ m_server = "null") =>
        /\ process = "running"
        /\ Count("m_server.null_dereference") = 0
        /\ m_contact_timer.waits = 0
        /\ m_dynamic_contact_timer.waits = 0

\* C15: no greet is ever issued to an endpoint whose address lies in a
\* banned range, whatever started the contact.
C15_NoGreetToBanned ==
    /\ \A i \in DOMAIN out :
         out[i].call = "async_greet" => ~InBannedRange(out[i].ep.address)
    /\ \A op \in BagToSet(inflight) :
         op.call = "async_greet" => ~InBannedRange(op.ep.address)

\* C18: when a periodic callback runs because of a natural expiry, the next
\* deadline equals the previous expiry plus the loop period (30 s static,
\* 45 s dynamic), however late the callback ran.
C18_NextDeadlineFromPreviousExpiry ==
    [][ /\ (PeriodicContact /\ Head(io_queue).ec = "success") =>
             m_contact_timer'.expiry = m_contact_timer.expiry + CONTACT_PERIOD
        /\ (PeriodicDynamicContact /\ Head(io_queue).ec = "success") =>
             m_dynamic_contact_timer'.expiry =
                 m_dynamic_contact_timer.expiry + DYNAMIC_CONTACT_PERIOD ]_vars

\* the waits of a timer that are pending or whose callback has not run yet
Outstanding(name, timer) ==
    timer.waits + Len(SelectSeq(io_queue, LAMBDA cb : cb.timer = name))

\* C19: there is at most one outstanding wait (armed, or completed with its
\* callback not yet run) for the static-contact timer and at most one for
\* the dynamic-contact timer.
C19_OneOutstandingWaitPerTimer ==
    /\ Outstanding("contact", m_contact_timer) <= 1
    /\ Outstanding("dynamic_contact", m_dynamic_contact_timer) <= 1

\* both loops were re-armed by a callback that ran on a natural expiry
C19_Witness ==
    /\ last.op = "do_handle_periodic_dynamic_contact"
    /\ last.ec = "success"
    /\ m_dynamic_contact_timer.waits = 1
    /\ m_contact_timer.waits = 1
    /\ m_contact_timer.expiry > CONTACT_PERIOD
    /\ io_queue = <<>>

\* C20: open() starts both loops and each fires at once: contact_all is
\* invoked once and dynamic_contact_all once during open().
C20_BothLoopsFireOnOpen ==
    (last.op = "open" /\ phase = "opened") =>
        /\ Count("async_contact_all") = 1
        /\ Count("async_dynamic_contact_all") = 1
        /\ m_contact_timer.waits = 1
        /\ m_dynamic_contact_timer.waits = 1

(***************************************************************************)
(* Claims about the gatherer after completion and under concurrent calls,  *)
(* and about the order of close().                                         *)
(***************************************************************************)
\* C21: once the completion handler has fired (every key reported once, the
\* pending set empty), a further gather call is not accepted (it records nothing) and does not invoke the handler a second
\* time, whatever key it carries.
C21_NoGatherAfterCompletion ==
    [][ (Gather /\ EachKeyExactlyOnce /\ m_handler # <<>>) =>
          /\ m_handler' = m_handler
          /\ m_results' = m_results ]_vars

\* the threads that are between their lock and their unlock
InGather == {t \in g_keys : threads[t].pc \in {"erase", "store", "test", "unlock"}}

\* every thread has returned from its gather call
AllReturned == \A t \in g_keys : threads[t].pc = "done"

\* C22: when gather is called concurrently, each thread with a distinct
\* expected key, the mutex serializes the calls: under every interleaving no
\* result is lost, the handler is invoked exactly once, by the thread whose
\* call empties the pending set, with a map holding the value of every key.
C22_ConcurrentGatherSerialized ==
    /\ Cardinality(InGather) <= 1
    /\ ~g_aborted
    /\ \A t \in g_keys :
         /\ threads[t].pc \in {"test", "unlock", "done"} =>
              /\ t \in DOMAIN m_results
              /\ m_results[t] = threads[t].value
         /\ threads[t].fired => threads[t].emptied
    /\ Len(m_handler) <= 1
    /\ (AllReturned /\ g_keys # {}) =>
         /\ Len(m_handler) = 1
         /\ DOMAIN m_handler[1] = g_keys
         /\ \A t \in g_keys : m_handler[1][t] = threads[t].value
         /\ Cardinality({t \in g_keys : threads[t].fired}) = 1

\* a thread waits for the mutex another thread holds
C22_WitnessContention ==
    /\ g_keys = ExpectedKeys
    /\ \E t, u \in g_keys :
         /\ threads[t].pc = "store"
         /\ threads[u].pc = "lock"
         /\ m_mutex = "locked"

\* every thread has returned and the handler got the value of every key
C22_Witness ==
    /\ g_keys = ExpectedKeys
    /\ Cardinality(g_keys) > 1
    /\ AllReturned
    /\ Len(m_handler) = 1
    /\ \A t \in g_keys : m_handler[1][t] = threads[t].value
    /\ \E t, u \in g_keys : threads[t].value # threads[u].value

\* the position of the first call named `name` among the calls of the last
\* handler, 0 if there is none
Position(name) ==
    IF \E i \in DOMAIN out : out[i].call = name
    THEN CHOOSE i \in DOMAIN out :
             /\ out[i].call = name
             /\ \A j \in DOMAIN out : out[j].call = name => i <= j
    ELSE 0

\* C23: in every execution of close() on an opened core, both timers are
\* cancelled, once each, before the secure channel service is closed, and no
\* wait of either timer is left pending.
C23_CancelBeforeServerClose ==
    (last.op = "close" /\ m_server = "closed") =>
        /\ Count("m_contact_timer.cancel") = 1
        /\ Count("m_dynamic_contact_timer.cancel") = 1
        /\ Count("server.close") = 1
        /\ Position("m_contact_timer.cancel") < Position("server.close")
        /\ Position("m_dynamic_contact_timer.cancel") < Position("server.close")
        /\ m_contact_timer.waits = 0
        /\ m_dynamic_contact_timer.waits = 0

\* close() ran on an opened core whose timers were both armed
C23_Witness ==
    /\ last.op = "close"
    /\ m_server = "closed"
    /\ phase = "closed"
    /\ Position("server.close") = 3
    /\ \E i, j \in DOMAIN io_queue :
         /\ io_queue[i] = [timer |-> "contact", ec |-> "operation_aborted"]
         /\ io_queue[j] = [timer |-> "dynamic_contact", ec |-> "operation_aborted"]

====
